---- MODULE Spec2Model ----
(***************************************************************************)
(* Model of test_util/helpers.go of gorouter: the fixture configuration    *)
(* builders (SpecConfig, SpecSSLConfig, generateConfig) and the            *)
(* self-signed certificate helpers (CreateKeyPair, CreateECKeyPair,        *)
(* CreateCert, CreateECCert).                                              *)
(*                                                                         *)
(* Every call runs in a frame of its own (calls[p]); a frame steps through *)
(* the statements of the function it executes.  The wall clock (now) and   *)
(* the entropy source (keysIssued counts the keys drawn from it) are the   *)
(* only things outside the frames.  A failing gomega Expect panics, which  *)
(* unwinds the call: the frame moves to "aborted" and keeps nothing.       *)
(*                                                                         *)
(* Numbers of arbitrary size (math/big) are kept as big-endian byte        *)
(* sequences without leading zero bytes.  Time is counted in seconds,      *)
(* which is the resolution of the validity fields of a certificate.        *)
(***************************************************************************)
EXTENDS Integers, Sequences, FiniteSets, TLC

\* ------------------------------------------------------------------ bounds
MaxCalls == 2
MaxClock == 2
MaxKeys == 4

\* ------------------------------------------------------- program constants
SerialBits == 128
Hour == 3600
RSABits == 2048

Procs == 1 .. MaxCalls

\* ---------------------------------------------------------------- math/big
RECURSIVE Zeros(_)
Zeros(n) == IF n <= 0 THEN << >> ELSE <<0>> \o Zeros(n - 1)

RECURSIVE Norm(_)
\* nat.norm: drop the leading zero bytes
Norm(bs) == IF bs = << >> THEN << >>
            ELSE IF Head(bs) = 0 THEN Norm(Tail(bs)) ELSE bs

RECURSIVE Pow2(_)
Pow2(n) == IF n = 0 THEN 1 ELSE 2 * Pow2(n - 1)

RECURSIVE MulSmall(_, _, _)
\* bs * m + carry for a small factor m, bytes processed from the low end
MulSmall(bs, m, carry) ==
    IF bs = << >> THEN (IF carry = 0 THEN << >> ELSE <<carry>>)
    ELSE LET last == bs[Len(bs)]
             v == last * m + carry
         IN MulSmall(SubSeq(bs, 1, Len(bs) - 1), m, v \div 256) \o <<v % 256>>

\* big.Int.Lsh on the absolute value
Lsh(bs, n) ==
    IF Norm(bs) = << >> THEN << >>
    ELSE Norm(MulSmall(Norm(bs), Pow2(n % 8), 0) \o Zeros(n \div 8))

RECURSIVE Dec(_)
\* big.Int.Sub(x, 1) for x > 0
Dec(bs) ==
    IF bs = << >> THEN << >>
    ELSE LET last == bs[Len(bs)]
             front == SubSeq(bs, 1, Len(bs) - 1)
         IN IF last > 0 THEN front \o <<last - 1>>
            ELSE Dec(front) \o <<255>>

RECURSIVE ByteBits(_)
ByteBits(b) == IF b = 0 THEN 0 ELSE 1 + ByteBits(b \div 2)

\* big.Int.BitLen
BitLen(bs) ==
    LET n == Norm(bs)
    IN IF n = << >> THEN 0 ELSE 8 * (Len(n) - 1) + ByteBits(Head(n))

RECURSIVE LexLess(_, _)
LexLess(a, b) ==
    IF a = << >> THEN FALSE
    ELSE IF Head(a) # Head(b) THEN Head(a) < Head(b)
    ELSE LexLess(Tail(a), Tail(b))

\* big.Int.Cmp(a, b) < 0 on absolute values
BigLess(a, b) ==
    LET x == Norm(a)
        y == Norm(b)
    IN IF Len(x) # Len(y) THEN Len(x) < Len(y) ELSE LexLess(x, y)

BigOne == <<1>>

\* ------------------------------------------------------------- crypto/rand
\* The bytes the entropy source delivers: a leading byte and a fill byte,
\* both taken from samples.
ByteSamples == {0, 255}

EntropyBytes(k, samples) == { <<top>> \o [i \in 1 .. (k - 1) |-> fill] :
                                 top \in samples, fill \in samples }

\* One round of the loop of rand.Int: the k bytes read, the top byte masked
\* to the bit length of max-1, the bytes taken as a non-negative number.
RandIntCandidate(max, bytes) ==
    LET bitLen == BitLen(Dec(max))
        b == IF bitLen % 8 = 0 THEN 8 ELSE bitLen % 8
        masked == <<Head(bytes) % Pow2(b)>> \o Tail(bytes)
    IN [neg |-> FALSE, abs |-> Norm(masked)]

RandIntLen(max) == (BitLen(Dec(max)) + 7) \div 8

\* rand.Int(rand.Reader, max): the values the loop can return (a candidate
\* that is not below max is drawn again).
RandInt(max, samples) ==
    { n \in { RandIntCandidate(max, bytes) : bytes \in EntropyBytes(RandIntLen(max), samples) } :
        BigLess(n.abs, max) }

\* a slip: the limit shifted one bit too far
serialNumberLimitWide == Lsh(BigOne, SerialBits + 1)

\* lines 102 / 137: new(big.Int).Lsh(big.NewInt(1), 128)
serialNumberLimit == Lsh(BigOne, SerialBits)

NoSerial == [neg |-> FALSE, abs |-> << >>]

\* ------------------------------------------------------------- crypto keys
NoKey == [alg |-> "none", id |-> 0, size |-> 0]

\* rsa.GenerateKey(rand.Reader, bits): the key the entropy source yields;
\* id stands for the key material (modulus and exponents).
RSAGenerateKey(id, bits) == [alg |-> "rsa", id |-> id, size |-> bits]

\* ecdsa.GenerateKey(elliptic.P256(), rand.Reader)
ECDSAGenerateKey(id) == [alg |-> "ecdsa", id |-> id, size |-> 256]

\* privKey.PublicKey
PublicKey(priv) == [alg |-> priv.alg, id |-> priv.id]

\* ------------------------------------------------------------ crypto/x509
OrgName == "xyz, Inc."

\* pkix.Name.ToRDNSequence: an attribute is written only when it is set.
ToRDNSequence(name) ==
    [i \in 1 .. Len(name.Organization) |-> [type |-> "O", value |-> name.Organization[i]]]
    \o (IF name.CommonName # "" THEN <<[type |-> "CN", value |-> name.CommonName]>> ELSE << >>)

RECURSIVE AttrValues(_, _)
AttrValues(rdn, t) ==
    IF rdn = << >> THEN << >>
    ELSE (IF Head(rdn).type = t THEN <<Head(rdn).value>> ELSE << >>) \o AttrValues(Tail(rdn), t)

\* pkix.Name.FillFromRDNSequence
FillFromRDNSequence(rdn) ==
    [Organization |-> AttrValues(rdn, "O"),
     CommonName |-> IF AttrValues(rdn, "CN") = << >> THEN ""
                    ELSE AttrValues(rdn, "CN")[Len(AttrValues(rdn, "CN"))]]

NoName == [Organization |-> << >>, CommonName |-> ""]

NoTemplate == [SerialNumber |-> NoSerial, Subject |-> NoName,
               SignatureAlgorithm |-> "none", NotBefore |-> 0, NotAfter |-> 0,
               BasicConstraintsValid |-> FALSE]

\* The public-key algorithm a signature algorithm belongs to.
SigAlgKey(sigAlg) ==
    CASE sigAlg = "SHA256WithRSA" -> "rsa"
      [] sigAlg = "ECDSAWithSHA256" -> "ecdsa"
      [] OTHER -> "none"

NoCert == [serial |-> NoSerial, issuer |-> << >>, subject |-> << >>,
           notBefore |-> 0, notAfter |-> 0, sigAlg |-> "none",
           publicKey |-> [alg |-> "none", id |-> 0], signedBy |-> 0,
           basicConstraintsValid |-> FALSE]

\* DER payloads: what the bytes of a PEM block encode.
EmptyDER == [kind |-> "empty", cert |-> NoCert, key |-> NoKey, oid |-> << >>]
CertDER(c) == [kind |-> "cert", cert |-> c, key |-> NoKey, oid |-> << >>]
OidDER(o) == [kind |-> "oid", cert |-> NoCert, key |-> NoKey, oid |-> o]

\* x509.CreateCertificate(rand, template, parent, pub, priv): the issuer is
\* the parent's subject, the certified key is pub, the signature is priv's.
\* It refuses a signature algorithm that does not fit the signing key.
CreateCertificate(template, parent, pub, priv) ==
    IF SigAlgKey(template.SignatureAlgorithm) # priv.alg
    THEN [ok |-> FALSE, der |-> EmptyDER]
    ELSE [ok |-> TRUE,
          der |-> CertDER([serial |-> template.SerialNumber,
                           issuer |-> ToRDNSequence(parent.Subject),
                           subject |-> ToRDNSequence(template.Subject),
                           notBefore |-> template.NotBefore,
                           notAfter |-> template.NotAfter,
                           sigAlg |-> template.SignatureAlgorithm,
                           publicKey |-> pub,
                           signedBy |-> priv.id,
                           basicConstraintsValid |-> template.BasicConstraintsValid])]

\* x509.MarshalPKCS1PrivateKey
MarshalPKCS1PrivateKey(priv) == [kind |-> "pkcs1", cert |-> NoCert, key |-> priv, oid |-> << >>]

\* x509.MarshalECPrivateKey
MarshalECPrivateKey(priv) == [kind |-> "sec1", cert |-> NoCert, key |-> priv, oid |-> << >>]

\* x509.ParseCertificate
ParseCertificate(der) ==
    IF der.kind # "cert" THEN [ok |-> FALSE, cert |-> NoCert]
    ELSE [ok |-> TRUE, cert |-> der.cert]

\* tls.parsePrivateKey: PKCS#1, then PKCS#8, then SEC1
ParsePrivateKey(der) ==
    IF der.kind = "pkcs1" /\ der.key.alg = "rsa" THEN [ok |-> TRUE, key |-> der.key]
    ELSE IF der.kind = "pkcs8" /\ der.key.alg \in {"rsa", "ecdsa"} THEN [ok |-> TRUE, key |-> der.key]
    ELSE IF der.kind = "sec1" /\ der.key.alg = "ecdsa" THEN [ok |-> TRUE, key |-> der.key]
    ELSE [ok |-> FALSE, key |-> NoKey]

\* asn1.ObjectIdentifier{1, 2, 840, 10045, 4, 3, 2}
EcdsaOid == <<1, 2, 840, 10045, 4, 3, 2>>

\* asn1.Marshal of the object identifier: the bytes, or nil with an error
Asn1Marshal(oid, ok) == IF ok THEN OidDER(oid) ELSE EmptyDER

\* ------------------------------------------------------------ encoding/pem
\* PEM text is a sequence of lines: the BEGIN line, the base64 body (absent
\* for an empty payload) and the END line of each block.
Block(type, bytes) == [Type |-> type, Bytes |-> bytes]

NoBlock == Block("", EmptyDER)

BeginLine(label) == [line |-> "BEGIN", label |-> label, data |-> EmptyDER]
EndLine(label) == [line |-> "END", label |-> label, data |-> EmptyDER]
BodyLine(bytes) == [line |-> "base64", label |-> "", data |-> bytes]
BlankLine == [line |-> "blank", label |-> "", data |-> EmptyDER]

\* pem.EncodeToMemory
EncodeToMemory(b) ==
    <<BeginLine(b.Type)>>
    \o (IF b.Bytes = EmptyDER THEN << >> ELSE <<BodyLine(b.Bytes)>>)
    \o <<EndLine(b.Type)>>

RECURSIVE Decode(_)
\* pem.Decode: the first well-formed block of the text and the rest after
\* it; text before the block and a block that does not close are skipped.
Decode(text) ==
    IF text = << >> THEN [ok |-> FALSE, block |-> NoBlock, rest |-> << >>]
    ELSE IF Head(text).line # "BEGIN" THEN Decode(Tail(text))
    ELSE IF Len(text) >= 2 /\ text[2].line = "END" /\ text[2].label = Head(text).label
         THEN [ok |-> TRUE, block |-> Block(Head(text).label, EmptyDER),
               rest |-> SubSeq(text, 3, Len(text))]
    ELSE IF Len(text) >= 3 /\ text[2].line = "base64"
            /\ text[3].line = "END" /\ text[3].label = Head(text).label
         THEN [ok |-> TRUE, block |-> Block(Head(text).label, text[2].data),
               rest |-> SubSeq(text, 4, Len(text))]
    ELSE Decode(Tail(text))

RECURSIVE DecodeAll(_)
\* the blocks a reader gets by calling pem.Decode until it yields nothing
DecodeAll(text) ==
    LET d == Decode(text)
    IN IF d.ok THEN <<d.block>> \o DecodeAll(d.rest) ELSE << >>

RECURSIVE DecodeTrailer(_)
\* what is left of the text after the last block
DecodeTrailer(text) ==
    LET d == Decode(text)
    IN IF d.ok THEN DecodeTrailer(d.rest) ELSE text

\* fmt.Sprintf("%s%s", a, b)
Concat(a, b) == a \o b

\* fmt.Sprintf("%s\n%s", a, b)
ConcatNewline(a, b) == a \o <<BlankLine>> \o b

\* -------------------------------------------------------------- crypto/tls
NoTLSCert == [Certificate |-> << >>, PrivateKey |-> NoKey]

RECURSIVE CertificateBlocks(_)
\* the payloads of the CERTIFICATE blocks of a text, other blocks skipped
CertificateBlocks(text) ==
    LET d == Decode(text)
    IN IF ~d.ok THEN << >>
       ELSE (IF d.block.Type = "CERTIFICATE" THEN <<d.block.Bytes>> ELSE << >>)
            \o CertificateBlocks(d.rest)

\* block.Type == "PRIVATE KEY" || strings.HasSuffix(block.Type, " PRIVATE KEY")
IsPrivateKeyType(type) == type \in {"PRIVATE KEY", "RSA PRIVATE KEY", "EC PRIVATE KEY"}

RECURSIVE FirstKeyBlock(_)
\* the first private-key block of a text, other blocks skipped
FirstKeyBlock(text) ==
    LET d == Decode(text)
    IN IF ~d.ok THEN [ok |-> FALSE, block |-> NoBlock]
       ELSE IF IsPrivateKeyType(d.block.Type) THEN [ok |-> TRUE, block |-> d.block]
       ELSE FirstKeyBlock(d.rest)

\* tls.X509KeyPair(certPEMBlock, keyPEMBlock)
X509KeyPair(certPEMBlock, keyPEMBlock) ==
    LET certs == CertificateBlocks(certPEMBlock)
        keyBlock == FirstKeyBlock(keyPEMBlock)
    IN IF certs = << >> \/ ~keyBlock.ok
       THEN [err |-> "MalformedPEM", cert |-> NoTLSCert]
       ELSE LET x509Cert == ParseCertificate(certs[1])
                priv == ParsePrivateKey(keyBlock.block.Bytes)
            IN IF ~x509Cert.ok \/ ~priv.ok
               THEN [err |-> "MalformedPEM", cert |-> NoTLSCert]
               ELSE IF x509Cert.cert.publicKey # PublicKey(priv.key)
               THEN [err |-> "KeyCertificateMismatch", cert |-> NoTLSCert]
               ELSE [err |-> "", cert |-> [Certificate |-> certs, PrivateKey |-> priv.key]]

\* ------------------------------------------------------------------ config
SSLCipherString == "TLS_ECDHE_RSA_WITH_AES_128_GCM_SHA256:TLS_ECDHE_RSA_WITH_AES_256_GCM_SHA384"

\* config.DefaultConfig(): the fields helpers.go touches.  The package is
\* not part of the modelled file; the cipher list it starts with is left
\* open.  Durations are in milliseconds.
DefaultConfigs ==
    { [Port |-> 8081, Index |-> 0, TraceKey |-> "", Ip |-> "",
       StartResponseDelayInterval |-> 5000, PublishStartMessageInterval |-> 30000,
       PruneStaleDropletsInterval |-> 30000, DropletStaleThreshold |-> 120000,
       PublishActiveAppsInterval |-> 0, Zone |-> "", EndpointTimeout |-> 60000,
       Status |-> [Port |-> 8082, User |-> "", Pass |-> ""],
       Nats |-> <<[Host |-> "localhost", Port |-> 4222, User |-> "", Pass |-> ""]>>,
       Logging |-> [Level |-> "debug", MetronAddress |-> "", JobName |-> ""],
       OAuth |-> [TokenEndpoint |-> "", Port |-> 0, SkipSSLValidation |-> FALSE],
       RouteServiceSecret |-> "", Tracing |-> [EnableZipkin |-> FALSE],
       EnableSSL |-> FALSE, SSLPort |-> 443, TLSPEM |-> << >>,
       CipherString |-> cs] : cs \in {"", SSLCipherString} }

NoConfig == CHOOSE c \in DefaultConfigs : c.CipherString = ""

ConfigFields == DOMAIN NoConfig

\* generateConfig(statusPort, proxyPort, natsPorts...) on the default c
generateConfig(c, statusPort, proxyPort, natsPorts) ==
    [c EXCEPT !.Port = proxyPort,
              !.Index = 2,
              !.TraceKey = "my_trace_key",
              !.Ip = "127.0.0.1",
              !.StartResponseDelayInterval = 1000,
              !.PublishStartMessageInterval = 10000,
              !.PruneStaleDropletsInterval = 0,
              !.DropletStaleThreshold = 10000,
              !.PublishActiveAppsInterval = 0,
              !.Zone = "z1",
              !.EndpointTimeout = 500,
              !.Status = [Port |-> statusPort, User |-> "user", Pass |-> "pass"],
              !.Nats = [i \in 1 .. Len(natsPorts) |->
                           [Host |-> "localhost", Port |-> natsPorts[i],
                            User |-> "nats", Pass |-> "nats"]],
              !.Logging = [Level |-> "debug", MetronAddress |-> "localhost:3457",
                           JobName |-> "router_test_z1_0"],
              !.OAuth = [TokenEndpoint |-> "uaa.cf.service.internal", Port |-> 8443,
                         SkipSSLValidation |-> TRUE],
              !.RouteServiceSecret = "kCvXxNMB0JO2vinxoru9Hg==",
              !.Tracing = [EnableZipkin |-> TRUE]]

\* a slip: each key joined with the certificate of the other pair
SpecSSLConfigFillCrossed(c, key, cert, secondKey, secondCert, SSLPort) ==
    [c EXCEPT !.TLSPEM = <<ConcatNewline(key, secondCert), ConcatNewline(secondKey, cert)>>,
              !.SSLPort = SSLPort,
              !.CipherString = SSLCipherString]

\* SpecSSLConfig after its two CreateKeyPair calls: lines 34-39
SpecSSLConfigFill(c, key, cert, secondKey, secondCert, SSLPort) ==
    [c EXCEPT !.TLSPEM = <<ConcatNewline(key, cert), ConcatNewline(secondKey, secondCert)>>,
              !.SSLPort = SSLPort,
              !.CipherString = SSLCipherString]

\* ------------------------------------------------------------------- state
VARIABLES calls, now, keysIssued

vars == <<calls, now, keysIssued>>

\* the inputs of the calls
CNames == {"", "potato.com"}
StatusPorts == {8082}
ProxyPorts == {8081, 9090}
SSLPorts == {4443}
NatsPortLists == {<< >>, <<4222, 4223>>}

KeyPairOps == {"CreateKeyPair", "CreateECKeyPair"}
CertOps == {"CreateCert", "CreateECCert"}
ConfigOps == {"SpecConfig", "SpecSSLConfig"}
Ops == KeyPairOps \cup CertOps \cup ConfigOps

NoArgs == [cname |-> "", statusPort |-> 0, proxyPort |-> 0, SSLPort |-> 0,
           natsPorts |-> << >>, dflt |-> NoConfig]

NoResult == [keyPEM |-> << >>, certPEM |-> << >>, tlsCert |-> NoTLSCert, config |-> NoConfig]

\* A frame: the call (op, args), where it stands (pc, fn: the key-pair
\* function it is inside, round: which CreateKeyPair call of SpecSSLConfig),
\* the locals of the key-pair function (cname .. keyPEM, err), the locals of
\* its caller (c, key, cert) and what the call returned (result).
IdleFrame ==
    [pc |-> "idle", op |-> "none", args |-> NoArgs, fn |-> "none", round |-> 0,
     cname |-> "", serialNumber |-> NoSerial, tmpl |-> NoTemplate, privKey |-> NoKey,
     certPEM |-> << >>, keyPEM |-> << >>, err |-> "",
     c |-> NoConfig, key |-> << >>, cert |-> << >>,
     result |-> NoResult]

\* the locals of the key-pair function are gone when it returns or panics
DropLocals(f) ==
    [f EXCEPT !.fn = "none", !.cname = "", !.serialNumber = NoSerial, !.tmpl = NoTemplate,
              !.privKey = NoKey, !.certPEM = << >>, !.keyPEM = << >>]

\* Expect(err).ToNot(HaveOccurred()) with an error: the fail handler panics
\* and the whole call is unwound; nothing is returned.
Abort(f, e) ==
    [DropLocals(f) EXCEPT !.pc = "aborted", !.err = e, !.round = 0,
                          !.c = NoConfig, !.key = << >>, !.cert = << >>,
                          !.result = NoResult]

\* entering CreateKeyPair / CreateECKeyPair with a common name
Enter(f, fn, cname) ==
    [f EXCEPT !.pc = "serial", !.fn = fn, !.cname = cname, !.err = ""]

\* the key-pair function a call runs
FnOf(op) == IF op \in {"CreateECKeyPair", "CreateECCert"} THEN "CreateECKeyPair"
            ELSE "CreateKeyPair"

\* the number of keys a call draws
KeysNeeded(op) == CASE op = "SpecConfig" -> 0
                    [] op = "SpecSSLConfig" -> 2
                    [] OTHER -> 1

Init ==
    /\ calls = [p \in Procs |-> IdleFrame]
    /\ now = 0
    /\ keysIssued = 0

\* A test invokes one of the certificate helpers with a common name.
\* The call takes the free frame of the lowest number.  sequential: only
\* when no other call is under way.
InvokeCert(p, sequential) ==
    /\ calls[p].pc = "idle"
    /\ \A q \in Procs : q < p => calls[q].pc # "idle"
    /\ sequential => \A q \in Procs : calls[q].pc = "idle"
    /\ \E op \in KeyPairOps \cup CertOps, cn \in CNames :
          /\ keysIssued + KeysNeeded(op) <= MaxKeys
          /\ calls' = [calls EXCEPT ![p] =
                 Enter([IdleFrame EXCEPT !.op = op, !.args = [NoArgs EXCEPT !.cname = cn]],
                       FnOf(op), cn)]
    /\ UNCHANGED <<now, keysIssued>>

\* A test invokes SpecConfig or SpecSSLConfig; config.DefaultConfig() is
\* read at line 45.
InvokeConfig(p, sequential) ==
    /\ calls[p].pc = "idle"
    /\ \A q \in Procs : q < p => calls[q].pc # "idle"
    /\ sequential => \A q \in Procs : calls[q].pc = "idle"
    /\ \E op \in ConfigOps, sp \in StatusPorts, pp \in ProxyPorts,
          ssl \in SSLPorts, np \in NatsPortLists, d \in DefaultConfigs :
          /\ keysIssued + KeysNeeded(op) <= MaxKeys
          /\ calls' = [calls EXCEPT ![p] =
                 [IdleFrame EXCEPT !.pc = "config", !.op = op,
                     !.args = [cname |-> "", statusPort |-> sp, proxyPort |-> pp,
                               SSLPort |-> IF op = "SpecSSLConfig" THEN ssl ELSE 0,
                               natsPorts |-> np, dflt |-> d]]]
    /\ UNCHANGED <<now, keysIssued>>

\* SpecConfig: lines 22-24
SpecConfig(p) ==
    LET f == calls[p]
    IN /\ f.pc = "config"
       /\ f.op = "SpecConfig"
       /\ calls' = [calls EXCEPT ![p] =
              [f EXCEPT !.pc = "done",
                        !.result = [NoResult EXCEPT !.config =
                            generateConfig(f.args.dflt, f.args.statusPort,
                                           f.args.proxyPort, f.args.natsPorts)]]]
       /\ UNCHANGED <<now, keysIssued>>

\* SpecSSLConfig, lines 27-31: the config, EnableSSL, and the call of
\* CreateKeyPair("potato.com")
SpecSSLConfigBegin(p) ==
    LET f == calls[p]
        c == generateConfig(f.args.dflt, f.args.statusPort, f.args.proxyPort, f.args.natsPorts)
    IN /\ f.pc = "config"
       /\ f.op = "SpecSSLConfig"
       /\ calls' = [calls EXCEPT ![p] =
              Enter([f EXCEPT !.c = [c EXCEPT !.EnableSSL = TRUE], !.round = 1],
                    "CreateKeyPair", "potato.com")]
       /\ UNCHANGED <<now, keysIssued>>

\* lines 101-104 / 136-139: the serial number, or the panic of Expect
SerialNumber(p, faults, samples) ==
    LET f == calls[p]
    IN /\ f.pc = "serial"
       /\ \E ok \in faults :
             IF ok
             THEN \E n \in RandInt(serialNumberLimit, samples) :
                     calls' = [calls EXCEPT ![p] = [f EXCEPT !.pc = "notBefore", !.serialNumber = n]]
             ELSE calls' = [calls EXCEPT ![p] = Abort(f, "RandomnessUnavailable")]
       /\ UNCHANGED <<now, keysIssued>>

\* a slip: the common name is never put in the subject
SubjectWithoutName(cname) == [Organization |-> <<OrgName>>, CommonName |-> ""]

\* lines 106-109 / 141-144
Subject(cname) ==
    LET subject == [Organization |-> <<OrgName>>, CommonName |-> ""]
    IN IF cname # "" THEN [subject EXCEPT !.CommonName = cname] ELSE subject

SignatureAlgorithmOf(fn) ==
    IF fn = "CreateECKeyPair" THEN "ECDSAWithSHA256" ELSE "SHA256WithRSA"

\* lines 106-115 / 141-150: the subject and the template up to NotBefore,
\* which reads the clock
TemplateNotBefore(p) ==
    LET f == calls[p]
    IN /\ f.pc = "notBefore"
       /\ calls' = [calls EXCEPT ![p] =
              [f EXCEPT !.pc = "notAfter",
                        !.tmpl = [NoTemplate EXCEPT !.SerialNumber = f.serialNumber,
                                                    !.Subject = Subject(f.cname),
                                                    !.SignatureAlgorithm = SignatureAlgorithmOf(f.fn),
                                                    !.NotBefore = now]]]
       /\ UNCHANGED <<now, keysIssued>>

\* lines 116-117 / 151-152: NotAfter reads the clock again
TemplateNotAfter(p) ==
    LET f == calls[p]
    IN /\ f.pc = "notAfter"
       /\ calls' = [calls EXCEPT ![p] =
              [f EXCEPT !.pc = "genkey",
                        !.tmpl = [f.tmpl EXCEPT !.NotAfter = now + Hour,
                                                !.BasicConstraintsValid = TRUE]]]
       /\ UNCHANGED <<now, keysIssued>>

\* the key the entropy source yields next
FreshKeyId(issued) == issued + 1

\* a slip: one key made once, kept in the package and handed to every call
GenerateKeyCached(p, faults) ==
    LET f == calls[p]
    IN /\ f.pc = "genkey"
       /\ calls' = [calls EXCEPT ![p] =
              [f EXCEPT !.pc = "sign",
                        !.privKey = IF f.fn = "CreateECKeyPair" THEN ECDSAGenerateKey(1)
                                    ELSE RSAGenerateKey(1, RSABits)]]
       /\ keysIssued' = IF keysIssued = 0 THEN 1 ELSE keysIssued
       /\ UNCHANGED now

\* lines 120-121 / 155-157
GenerateKey(p, faults) ==
    LET f == calls[p]
    IN /\ f.pc = "genkey"
       /\ \E ok \in faults :
             IF ok
             THEN /\ calls' = [calls EXCEPT ![p] =
                         [f EXCEPT !.pc = "sign",
                                   !.privKey = IF f.fn = "CreateECKeyPair"
                                               THEN ECDSAGenerateKey(FreshKeyId(keysIssued))
                                               ELSE RSAGenerateKey(FreshKeyId(keysIssued), RSABits)]]
                  /\ keysIssued' = keysIssued + 1
             ELSE /\ calls' = [calls EXCEPT ![p] = Abort(f, "KeyGenerationFailed")]
                  /\ UNCHANGED keysIssued
       /\ UNCHANGED now

\* a slip: the certificate is made for the public key of another key
SelfSignOtherKey(tmpl, privKey) ==
    CreateCertificate(tmpl, tmpl, [alg |-> privKey.alg, id |-> privKey.id + 1], privKey)

\* a slip: the certificate is issued under another template than its own
SelfSignOtherParent(tmpl, privKey) ==
    CreateCertificate(tmpl, [tmpl EXCEPT !.Subject = [Organization |-> <<OrgName>>, CommonName |-> "ca"]],
                      PublicKey(privKey), privKey)

\* line 122 / 159: x509.CreateCertificate(rand.Reader, &tmpl, &tmpl,
\* &privKey.PublicKey, privKey)
SelfSign(tmpl, privKey) == CreateCertificate(tmpl, tmpl, PublicKey(privKey), privKey)

\* lines 122-126 / 159-163: the template signed as its own parent, and the
\* certificate's PEM text
SignCertificate(p, faults) ==
    LET f == calls[p]
        r == SelfSign(f.tmpl, f.privKey)
    IN /\ f.pc = "sign"
       /\ \E ok \in faults :
             IF ok /\ r.ok
             THEN calls' = [calls EXCEPT ![p] =
                      [f EXCEPT !.pc = "encodeKey",
                                !.certPEM = EncodeToMemory(Block("CERTIFICATE", r.der))]]
             ELSE calls' = [calls EXCEPT ![p] = Abort(f, "CertificateSigningFailed")]
       /\ UNCHANGED <<now, keysIssued>>

\* The return of CreateKeyPair / CreateECKeyPair to whoever called it: the
\* test (the pair is the result), CreateCert / CreateECCert (lines 179, 186)
\* or SpecSSLConfig (lines 31-32, then lines 34-41).
ReturnPair(f, keyPEM, certPEM) ==
    LET g == DropLocals(f)
    IN CASE f.op \in KeyPairOps ->
               [g EXCEPT !.pc = "done",
                         !.result = [NoResult EXCEPT !.keyPEM = keyPEM, !.certPEM = certPEM]]
         [] f.op \in CertOps ->
               [g EXCEPT !.pc = "x509pair", !.key = keyPEM, !.cert = certPEM]
         [] f.op = "SpecSSLConfig" /\ f.round = 1 ->
               Enter([g EXCEPT !.key = keyPEM, !.cert = certPEM, !.round = 2],
                     "CreateKeyPair", "potato2.com")
         [] OTHER ->
               [g EXCEPT !.pc = "done", !.round = 0,
                         !.c = NoConfig, !.key = << >>, !.cert = << >>,
                         !.result = [NoResult EXCEPT !.config =
                             SpecSSLConfigFill(f.c, f.key, f.cert, keyPEM, certPEM,
                                               f.args.SSLPort)]]

\* lines 127-132: the PKCS#1 key block, and the return
EncodeRSAKey(p) ==
    LET f == calls[p]
        keyPEM == EncodeToMemory(Block("RSA PRIVATE KEY", MarshalPKCS1PrivateKey(f.privKey)))
    IN /\ f.pc = "encodeKey"
       /\ f.fn = "CreateKeyPair"
       /\ calls' = [calls EXCEPT ![p] = ReturnPair(f, keyPEM, f.certPEM)]
       /\ UNCHANGED <<now, keysIssued>>

\* lines 164-170: the SEC1 key block, or the panic of Expect
EncodeECKey(p, faults) ==
    LET f == calls[p]
    IN /\ f.pc = "encodeKey"
       /\ f.fn = "CreateECKeyPair"
       /\ \E ok \in faults :
             IF ok
             THEN calls' = [calls EXCEPT ![p] =
                      [f EXCEPT !.pc = "params",
                                !.keyPEM = EncodeToMemory(Block("EC PRIVATE KEY",
                                                                MarshalECPrivateKey(f.privKey)))]]
             ELSE calls' = [calls EXCEPT ![p] = Abort(f, "KeyEncodingFailed")]
       /\ UNCHANGED <<now, keysIssued>>

\* a slip: the blocks joined in the order they were built
ECKeyTextKeyFirst(ecdsaOid, keyPEM) ==
    Concat(keyPEM, EncodeToMemory(Block("EC PARAMETERS", ecdsaOid)))

\* lines 172-174: the parameters block put in front of the key block.  The
\* err of asn1.Marshal is assigned and not looked at.
ECKeyText(ecdsaOid, keyPEM) ==
    LET paramPEM == EncodeToMemory(Block("EC PARAMETERS", ecdsaOid))
    IN Concat(paramPEM, keyPEM)

\* lines 172-175: the object identifier, the key text, and the return
EncodeECParameters(p, faults) ==
    LET f == calls[p]
    IN /\ f.pc = "params"
       /\ \E ok \in faults :
             calls' = [calls EXCEPT ![p] =
                 ReturnPair([f EXCEPT !.err = IF ok THEN "" ELSE "ParameterEncodingFailed"],
                            ECKeyText(Asn1Marshal(EcdsaOid, ok), f.keyPEM), f.certPEM)]
       /\ UNCHANGED <<now, keysIssued>>

\* CreateCert / CreateECCert, lines 180-182 / 187-189
LoadKeyPair(p) ==
    LET f == calls[p]
        r == X509KeyPair(f.cert, f.key)
    IN /\ f.pc = "x509pair"
       /\ calls' = [calls EXCEPT ![p] =
              IF r.err # "" THEN Abort(f, r.err)
              ELSE [f EXCEPT !.pc = "done", !.key = << >>, !.cert = << >>,
                             !.result = [NoResult EXCEPT !.tlsCert = r.cert]]]
       /\ UNCHANGED <<now, keysIssued>>

\* the wall clock advances by a second
Tick ==
    /\ now < MaxClock
    /\ now' = now + 1
    /\ UNCHANGED <<calls, keysIssued>>

\* the test is through with what a call returned, or with its panic
Collect(p) ==
    /\ calls[p].pc \in {"done", "aborted"}
    /\ calls' = [calls EXCEPT ![p] = IdleFrame]
    /\ UNCHANGED <<now, keysIssued>>

\* the outcomes of a step that can fail: TRUE it succeeds, FALSE it fails
Outcomes == BOOLEAN

\* One test goroutine: a call at a time, any step may fail.
Next ==
    \/ \E p \in Procs : InvokeCert(p, TRUE)
    \/ \E p \in Procs : InvokeConfig(p, TRUE)
    \/ \E p \in Procs : SpecConfig(p)
    \/ \E p \in Procs : SpecSSLConfigBegin(p)
    \/ \E p \in Procs : SerialNumber(p, Outcomes, ByteSamples)
    \/ \E p \in Procs : TemplateNotBefore(p)
    \/ \E p \in Procs : TemplateNotAfter(p)
    \/ \E p \in Procs : GenerateKey(p, Outcomes)
    \/ \E p \in Procs : SignCertificate(p, Outcomes)
    \/ \E p \in Procs : EncodeRSAKey(p)
    \/ \E p \in Procs : EncodeECKey(p, Outcomes)
    \/ \E p \in Procs : EncodeECParameters(p, Outcomes)
    \/ \E p \in Procs : LoadKeyPair(p)
    \/ \E p \in Procs : Collect(p)
    \/ Tick

Spec == Init /\ [][Next]_vars

\* Several test goroutines: the certificate helpers are called at any time,
\* their steps interleave, and what they returned is kept.  The clock
\* stands still, the entropy source delivers one byte pattern and no
\* library call fails.
ConcSamples == {255}

NoFaults == {TRUE}

NextConc ==
    \/ \E p \in Procs : InvokeCert(p, FALSE)
    \/ \E p \in Procs : SerialNumber(p, NoFaults, ConcSamples)
    \/ \E p \in Procs : TemplateNotBefore(p)
    \/ \E p \in Procs : TemplateNotAfter(p)
    \/ \E p \in Procs : GenerateKey(p, NoFaults)
    \/ \E p \in Procs : SignCertificate(p, NoFaults)
    \/ \E p \in Procs : EncodeRSAKey(p)
    \/ \E p \in Procs : EncodeECKey(p, NoFaults)
    \/ \E p \in Procs : EncodeECParameters(p, NoFaults)
    \/ \E p \in Procs : LoadKeyPair(p)

SpecConc == Init /\ [][NextConc]_vars

\* ------------------------------------------------------------- observation
\* The (key, cert) pairs a key-pair function has handed back and that are
\* still held: by the test, by CreateCert / CreateECCert before the pairing,
\* by SpecSSLConfig between its two calls.
ProducedPairs ==
    { [fn |-> FnOf(calls[p].op), cname |-> calls[p].args.cname,
       key |-> calls[p].result.keyPEM, cert |-> calls[p].result.certPEM] :
          p \in { q \in Procs : calls[q].pc = "done" /\ calls[q].op \in KeyPairOps } }
    \cup
    { [fn |-> FnOf(calls[p].op), cname |-> calls[p].args.cname,
       key |-> calls[p].key, cert |-> calls[p].cert] :
          p \in { q \in Procs : calls[q].pc = "x509pair" } }
    \cup
    { [fn |-> "CreateKeyPair", cname |-> "potato.com",
       key |-> calls[p].key, cert |-> calls[p].cert] :
          p \in { q \in Procs : calls[q].op = "SpecSSLConfig" /\ calls[q].round = 2 } }

\* the certificate a certificate text holds, read back from the text
CertOf(text) == ParseCertificate(CertificateBlocks(text)[1]).cert

\* the private key a key text holds, read back from the text
KeyOf(text) == ParsePrivateKey(FirstKeyBlock(text).block.Bytes).key

\* -------------------------------------------------------------- properties

\* C1: CreateCert and CreateECCert succeed on the pair their generator made
\* in the same call: the pairing reports neither KeyCertificateMismatch nor
\* MalformedPEM, no call ends on one of them, and the credential returned
\* holds the private key whose public key the certificate certifies and
\* that signed it.
C1_PairingSucceeds ==
    \A p \in Procs :
       LET f == calls[p]
       IN /\ f.pc = "x509pair" => X509KeyPair(f.cert, f.key).err = ""
          /\ f.err \notin {"KeyCertificateMismatch", "MalformedPEM"}
          /\ (f.pc = "done" /\ f.op \in CertOps) =>
                /\ Len(f.result.tlsCert.Certificate) = 1
                /\ LET cert == ParseCertificate(f.result.tlsCert.Certificate[1]).cert
                   IN /\ cert.publicKey = PublicKey(f.result.tlsCert.PrivateKey)
                      /\ cert.signedBy = f.result.tlsCert.PrivateKey.id
                      /\ f.result.tlsCert.PrivateKey.id > 0

C1_Witness ==
    \E p \in Procs :
       /\ calls[p].pc = "done"
       /\ calls[p].op = "CreateECCert"
       /\ calls[p].args.cname = ""
       /\ calls[p].result.tlsCert.PrivateKey.alg = "ecdsa"

\* C2: the subject of a generated certificate carries the common name given,
\* no common name attribute at all when the name given is empty, and always
\* the one organization "xyz, Inc.".
C2_SubjectCommonName ==
    \A pr \in ProducedPairs :
       LET subject == CertOf(pr.cert).subject
       IN /\ FillFromRDNSequence(subject).CommonName = pr.cname
          /\ pr.cname = "" => AttrValues(subject, "CN") = << >>
          /\ pr.cname # "" => AttrValues(subject, "CN") = <<pr.cname>>
          /\ AttrValues(subject, "O") = <<"xyz, Inc.">>

C2_Witness ==
    \E pr \in ProducedPairs :
       /\ pr.cname = ""
       /\ pr.fn = "CreateECKeyPair"
       /\ CertOf(pr.cert).subject = <<[type |-> "O", value |-> "xyz, Inc."]>>

\* C3: the key text of CreateECKeyPair splits into exactly two PEM blocks,
\* EC PARAMETERS first and EC PRIVATE KEY second, with nothing between them
\* and nothing after them.
C3_ECBlockOrder ==
    \A pr \in ProducedPairs :
       pr.fn = "CreateECKeyPair" =>
          LET blocks == DecodeAll(pr.key)
          IN /\ Len(blocks) = 2
             /\ blocks[1].Type = "EC PARAMETERS"
             /\ blocks[2].Type = "EC PRIVATE KEY"
             /\ DecodeTrailer(pr.key) = << >>
             /\ pr.key = EncodeToMemory(blocks[1]) \o EncodeToMemory(blocks[2])

C3_Witness ==
    \E pr \in ProducedPairs :
       /\ pr.fn = "CreateECKeyPair"
       /\ Len(pr.key) > 0
       /\ KeyOf(pr.key).alg = "ecdsa"

\* C4 (as claimed): every generated certificate is valid for exactly one
\* hour, not_after - not_before = 3600 s, whatever time passes between the
\* two readings of the clock.
C4_ValidityExactlyOneHour ==
    \A pr \in ProducedPairs :
       /\ CertOf(pr.cert).notAfter - CertOf(pr.cert).notBefore = 3600
       /\ CertOf(pr.cert).notAfter > CertOf(pr.cert).notBefore

\* C5 (as claimed): when the serialization of the object identifier fails,
\* CreateECKeyPair aborts and returns nothing; no key text with an empty
\* EC PARAMETERS block reaches the caller.
C5_ParameterEncodingAborts ==
    /\ \A p \in Procs :
          calls[p].err = "ParameterEncodingFailed" =>
             (calls[p].pc = "aborted" /\ calls[p].result = NoResult)
    /\ \A pr \in ProducedPairs :
          pr.fn = "CreateECKeyPair" => DecodeAll(pr.key)[1].Bytes = OidDER(EcdsaOid)

\* C6 (as claimed): a failure of any step aborts the call at that step: a
\* call in which a step has failed is aborted, runs no later step and has
\* returned nothing.
C6_FailureAborts ==
    \A p \in Procs :
       calls[p].err # "" =>
          /\ calls[p].pc = "aborted"
          /\ calls[p].result = NoResult
          /\ calls[p].key = << >>
          /\ calls[p].cert = << >>

\* C7: a generated certificate is self-signed: the issuer is the subject,
\* the certified public key is the one of the key returned with it, the
\* signature is made with that key, by the algorithm of that key.
C7_SelfSigned ==
    \A pr \in ProducedPairs :
       LET cert == CertOf(pr.cert)
           key == KeyOf(pr.key)
       IN /\ cert.issuer = cert.subject
          /\ cert.subject # << >>
          /\ cert.publicKey = PublicKey(key)
          /\ cert.signedBy = key.id
          /\ key.id > 0
          /\ SigAlgKey(cert.sigAlg) = key.alg
          /\ key.alg = (IF pr.fn = "CreateECKeyPair" THEN "ecdsa" ELSE "rsa")

C7_Witness ==
    \E pr \in ProducedPairs :
       /\ pr.fn = "CreateKeyPair"
       /\ pr.cname = "potato.com"
       /\ CertOf(pr.cert).issuer = CertOf(pr.cert).subject
       /\ CertOf(pr.cert).signedBy > 0

\* a number kept in bytes is below 2^128 when its 16 low bytes hold it
BelowTwoPow128(n) == Len(Norm(n.abs)) <= 16

\* C8: the serial number of a generated certificate is a non-negative
\* integer below 2^128; it can be 0.
C8_SerialRange ==
    \A pr \in ProducedPairs :
       LET serial == CertOf(pr.cert).serial
       IN /\ ~serial.neg
          /\ BelowTwoPow128(serial)
          /\ \A i \in 1 .. Len(serial.abs) : serial.abs[i] \in 0 .. 255

C8_Witness ==
    \E pr \in ProducedPairs : CertOf(pr.cert).serial.abs = << >> /\ Len(pr.cert) > 0

\* the keys a frame holds, as locals, as texts or in what it returned
KeyIds(f) ==
    { f.privKey.id, f.result.tlsCert.PrivateKey.id }
    \cup { KeyOf(t).id : t \in { x \in {f.key, f.keyPEM, f.result.keyPEM} : FirstKeyBlock(x).ok } }
    \cup { CertOf(t).publicKey.id :
              t \in { x \in {f.cert, f.certPEM, f.result.certPEM} : CertificateBlocks(x) # << >> } }

\* what a finished call returned belongs to that call alone
OwnResult(f) ==
    /\ f.op \in KeyPairOps =>
          /\ FillFromRDNSequence(CertOf(f.result.certPEM).subject).CommonName = f.args.cname
          /\ CertOf(f.result.certPEM).publicKey = PublicKey(KeyOf(f.result.keyPEM))
          /\ KeyOf(f.result.keyPEM).alg = (IF f.op = "CreateECKeyPair" THEN "ecdsa" ELSE "rsa")
          /\ X509KeyPair(f.result.certPEM, f.result.keyPEM).err = ""
    /\ f.op \in CertOps =>
          /\ Len(f.result.tlsCert.Certificate) = 1
          /\ LET cert == ParseCertificate(f.result.tlsCert.Certificate[1]).cert
             IN /\ FillFromRDNSequence(cert.subject).CommonName = f.args.cname
                /\ cert.publicKey = PublicKey(f.result.tlsCert.PrivateKey)
                /\ f.result.tlsCert.PrivateKey.alg =
                      (IF f.op = "CreateECCert" THEN "ecdsa" ELSE "rsa")

C9_Separate ==
    /\ \A p \in Procs, q \in Procs :
          p # q => (KeyIds(calls[p]) \cap KeyIds(calls[q])) \subseteq {0}
    /\ \A p \in Procs : calls[p].pc = "done" => OwnResult(calls[p])
    /\ \A p \in Procs : calls[p].pc # "aborted"

C9_Step ==
    \A p \in Procs :
       calls'[p] # calls[p] => \A q \in Procs : q # p => calls'[q] = calls[q]

\* C9: calls of the certificate helpers that run at the same time, in any
\* interleaving, do not touch one another: a step of one call leaves the
\* frames of the others as they are, no key is held by two calls, and every
\* call ends with the pair or credential of its own common name and its own
\* key, as when it runs alone.
C9_Isolation == [](C9_Separate) /\ [][C9_Step]_vars

C9_Witness ==
    \E p \in Procs, q \in Procs :
       /\ p # q
       /\ calls[p].pc = "done"
       /\ calls[p].op = "CreateKeyPair"
       /\ calls[q].pc \in {"sign", "encodeKey", "params", "x509pair"}
       /\ calls[q].op = "CreateECCert"
       /\ \E i \in KeyIds(calls[p]), j \in KeyIds(calls[q]) : 0 < j /\ j < i

\* an entry of TLSPEM: the RSA key text, a newline, the certificate text of
\* the same pair, issued for the common name cn
SSLEntry(entry, cn) ==
    LET blocks == DecodeAll(entry)
    IN /\ Len(blocks) = 2
       /\ blocks[1].Type = "RSA PRIVATE KEY"
       /\ blocks[2].Type = "CERTIFICATE"
       /\ entry = EncodeToMemory(blocks[1]) \o <<BlankLine>> \o EncodeToMemory(blocks[2])
       /\ FillFromRDNSequence(CertOf(entry).subject).CommonName = cn
       /\ CertOf(entry).publicKey = PublicKey(KeyOf(entry))
       /\ CertOf(entry).signedBy = KeyOf(entry).id

\* what SpecSSLConfig and SpecConfig return, exempt being the fields in
\* which the two may differ for the same ports
ConfigResults(exempt) ==
    \A p \in Procs :
       LET f == calls[p]
           c == f.result.config
           plain == generateConfig(f.args.dflt, f.args.statusPort, f.args.proxyPort,
                                   f.args.natsPorts)
       IN /\ (f.pc = "done" /\ f.op = "SpecSSLConfig") =>
                /\ c.EnableSSL
                /\ c.SSLPort = f.args.SSLPort
                /\ Len(c.TLSPEM) = 2
                /\ SSLEntry(c.TLSPEM[1], "potato.com")
                /\ SSLEntry(c.TLSPEM[2], "potato2.com")
                /\ KeyOf(c.TLSPEM[1]) # KeyOf(c.TLSPEM[2])
                /\ \A fld \in ConfigFields \ exempt : c[fld] = plain[fld]
          /\ (f.pc = "done" /\ f.op = "SpecConfig") =>
                /\ c.TLSPEM = f.args.dflt.TLSPEM
                /\ c.EnableSSL = f.args.dflt.EnableSSL
                /\ c.SSLPort = f.args.dflt.SSLPort
                /\ \A fld \in ConfigFields \ exempt : c[fld] = plain[fld]

\* C10 (as claimed): SpecSSLConfig returns EnableSSL, SSLPort and the two
\* TLSPEM entries for potato.com and potato2.com, each a key text, a newline
\* and its own certificate text; SpecConfig leaves the three at the
\* defaults; every other field is the same from both builders.
C10_OnlyThreeFieldsDiffer == ConfigResults({"TLSPEM", "EnableSSL", "SSLPort"})

\* C10 (amended): as claimed, but SpecSSLConfig also sets CipherString, to
\* the fixed list of two suites; every field other than TLSPEM, EnableSSL,
\* SSLPort and CipherString is the same from both builders.
C10_FourFieldsDiffer ==
    /\ ConfigResults({"TLSPEM", "EnableSSL", "SSLPort", "CipherString"})
    /\ \A p \in Procs :
          (calls[p].pc = "done" /\ calls[p].op = "SpecSSLConfig") =>
             calls[p].result.config.CipherString = SSLCipherString
    /\ \A p \in Procs :
          (calls[p].pc = "done" /\ calls[p].op = "SpecConfig") =>
             calls[p].result.config.CipherString = calls[p].args.dflt.CipherString

C10_Witness ==
    \E p \in Procs :
       /\ calls[p].pc = "done"
       /\ calls[p].op = "SpecSSLConfig"
       /\ calls[p].args.natsPorts # << >>
       /\ Len(calls[p].result.config.TLSPEM) = 2

====
